---- MODULE Spec2Model ----
(***************************************************************************)
(* Model of src/src/runner.js: the recursive DSL rule evaluator            *)
(* (dslRuleHandler and its per-shape handlers) and the driver run.         *)
(*                                                                         *)
(* JavaScript values are records [t, n, f, s]:                             *)
(*   t  the type tag ("undefined", "number", "nan", "string", "function",  *)
(*      "array"), n the number, f a string/function name, s array elements *)
(* AST nodes are records carrying a "shape" field, as in the source.       *)
(* A bindings object is a record over the names a, add and boom;           *)
(* Undefined stands for "no such property".                                *)
(* An exception is the field "thrown" of a handler's result; it travels up *)
(* through every caller until a try/catch (dslRuleHandler's) stops it.     *)
(***************************************************************************)
EXTENDS Integers, Sequences, FiniteSets, TLC

\* ------------------------------------------------------------------ bounds
MaxArgs == 3
MaxNodes == 3
MaxStmts == 2
MaxRuns == 2

\* ------------------------------------------------------------------ values
Undefined == [t |-> "undefined", n |-> 0, f |-> "", s |-> <<>>]
Num(k) == [t |-> "number", n |-> k, f |-> "", s |-> <<>>]
NaN == [t |-> "nan", n |-> 0, f |-> "", s |-> <<>>]
Str(x) == [t |-> "string", n |-> 0, f |-> x, s |-> <<>>]
Fn(x) == [t |-> "function", n |-> 0, f |-> x, s |-> <<>>]
Arr(q) == [t |-> "array", n |-> 0, f |-> "", s |-> q]

\* typeof v
TypeOf(v) ==
  CASE v.t \in {"number", "nan"} -> "number"
    [] v.t = "array" -> "object"
    [] OTHER -> v.t

NoBindings == [a |-> Undefined, add |-> Undefined, boom |-> Undefined]

\* Object.assign({}, pB, nB): own properties of nB override those of pB
Own(pB, nB, k) == IF nB[k] # Undefined THEN nB[k] ELSE pB[k]
ObjectAssign(pB, nB) ==
  [a |-> Own(pB, nB, "a"), add |-> Own(pB, nB, "add"), boom |-> Own(pB, nB, "boom")]

\* x + y of JavaScript on the values the model produces
JsAdd(x, y) ==
  IF x.t \in {"string", "function", "array"} \/ y.t \in {"string", "function", "array"}
  THEN Str("concat")
  ELSE IF x.t = "number" /\ y.t = "number" THEN Num(x.n + y.n) ELSE NaN

\* the host operations bound in the root bindings: add is (x, y) => x + y,
\* boom is an operation that raises
HostApply(op, x, y) ==
  IF op.f = "add" THEN [v |-> JsAdd(x, y), thrown |-> FALSE]
  ELSE [v |-> Undefined, thrown |-> TRUE]

\* ------------------------------------------------------------------- nodes
IsNode(x) == "shape" \in DOMAIN x

Lit(i, v) == [id |-> i, shape |-> "Literal", value |-> v]
Id(i, nm) == [id |-> i, shape |-> "Identifier", name |-> nm]
Asg(i, nm, v) == [id |-> i, shape |-> "Assignment", name |-> nm, value |-> v]
Fun(i, c, as) == [id |-> i, shape |-> "Function", callee |-> [name |-> c], args |-> as]
Ary(i, ns) == [id |-> i, shape |-> "Array", nodes |-> ns]
Blk(i, ns, bs) == [id |-> i, shape |-> "Block", nodes |-> ns, bindings |-> bs]
Other(i) == [id |-> i, shape |-> "Comment"]

\* ------------------------------------------------------- handler results
\* h is the mutable world a handler works on: b the bindings object it was
\* given, ev the evaluation record, log the console.error lines
Ret(v, n, h) == [v |-> v, thrown |-> FALSE, n |-> n, h |-> h]
Throw(n, h) == [v |-> Undefined, thrown |-> TRUE, n |-> n, h |-> h]

At(q, j) == IF j \in DOMAIN q THEN q[j] ELSE Undefined

RECURSIVE dslRuleHandler(_, _, _, _)
RECURSIVE argsLoop(_, _, _, _)
RECURSIVE blockLoop(_, _, _, _, _)
RECURSIVE arrayLoop(_, _, _, _, _)

literalRuleHandler(n, h) ==
  IF TypeOf(n.value) # "number" THEN Throw(n, h) ELSE Ret(n.value, n, h)

identifierRuleHandler(n, h) == Ret(h.b[n.name], n, h)

\* the handler without the parent check of line 57
assignmentAnywhere(n, pN, h, path) ==
  LET r == dslRuleHandler(n.value, n, h, Append(path, 1))
      n1 == [n EXCEPT !.value = r.n]
      b1 == IF r.v # Undefined THEN [r.h.b EXCEPT ![n.name] = r.v] ELSE r.h.b
  IN IF r.thrown THEN Throw(n1, r.h)
     ELSE Ret(b1[n.name], n1, [r.h EXCEPT !.b = b1])

assignmentRuleHandler(n, pN, h, path) ==
  IF pN.shape = "Block"
  THEN LET r == dslRuleHandler(n.value, n, h, Append(path, 1))
           n1 == [n EXCEPT !.value = r.n]
           b1 == IF r.v # Undefined THEN [r.h.b EXCEPT ![n.name] = r.v] ELSE r.h.b
       IN IF r.thrown THEN Throw(n1, r.h)
          ELSE Ret(b1[n.name], n1, [r.h EXCEPT !.b = b1])
  ELSE Throw(n, h)

\* the for loop of executeCalleeAndArgs from index i on
argsLoop(N, i, h, path) ==
  IF i > Len(N.args) THEN Ret(Undefined, N, h)
  ELSE LET r == dslRuleHandler(N.args[i], N, h, Append(path, i))
       IN IF r.thrown THEN Throw([N EXCEPT !.args[i] = r.n], r.h)
          ELSE argsLoop([N EXCEPT !.args[i] = r.v], i + 1, r.h, path)

executeCalleeAndArgs(N, h, path) == argsLoop(N, 1, h, path)

\* the handler applying the operation to args[1], args[2] of the source
\* (the second and third argument)
functionShiftedArgs(n, h, path) ==
  LET p == executeCalleeAndArgs(n, h, path)
      args == p.n.args
      operation == p.h.b[p.n.callee.name]
      out == HostApply(operation, At(args, 2), At(args, 3))
      call == [kind |-> "call", path |-> path, node |-> p.n, pshape |-> "",
               bIn |-> p.h.b, bOut |-> p.h.b,
               v |-> out.v, failed |-> out.thrown,
               a |-> <<At(args, 2), At(args, 3)>>]
      h1 == [p.h EXCEPT !.ev = Append(@, call)]
  IN IF p.thrown THEN p
     ELSE IF TypeOf(operation) = "function"
          THEN IF out.thrown THEN Throw(p.n, h1) ELSE Ret(out.v, p.n, h1)
          ELSE Throw(p.n, p.h)

functionRuleHandler(n, h, path) ==
  LET p == executeCalleeAndArgs(n, h, path)
      args == p.n.args
      operation == p.h.b[p.n.callee.name]
      out == HostApply(operation, At(args, 1), At(args, 2))
      call == [kind |-> "call", path |-> path, node |-> p.n, pshape |-> "",
               bIn |-> p.h.b, bOut |-> p.h.b,
               v |-> out.v, failed |-> out.thrown,
               a |-> <<At(args, 1), At(args, 2)>>]
      h1 == [p.h EXCEPT !.ev = Append(@, call)]
  IN IF p.thrown THEN p
     ELSE IF TypeOf(operation) = "function"
          THEN IF out.thrown THEN Throw(p.n, h1) ELSE Ret(out.v, p.n, h1)
          ELSE Throw(p.n, p.h)

\* the loop with "rB = value" outside the test of line 134
blockLoopOverwrite(pN, i, rB, h, path) ==
  IF i > Len(pN.nodes) THEN Ret(rB, pN, h)
  ELSE LET r == dslRuleHandler(pN.nodes[i], pN, h, Append(path, i))
           pN1 == [pN EXCEPT !.nodes[i] = r.n]
       IN IF r.thrown THEN Throw(pN1, r.h)
          ELSE blockLoop(pN1, i + 1, r.v, r.h, path)

\* the for loop of blockRuleHandler from index i on, rB the tracker
blockLoop(pN, i, rB, h, path) ==
  IF i > Len(pN.nodes) THEN Ret(rB, pN, h)
  ELSE LET r == dslRuleHandler(pN.nodes[i], pN, h, Append(path, i))
           pN1 == [pN EXCEPT !.nodes[i] = r.n]
       IN IF r.thrown THEN Throw(pN1, r.h)
          ELSE blockLoop(pN1, i + 1, IF r.v # Undefined THEN r.v ELSE rB, r.h, path)

\* the block working on the parent's bindings object instead of a copy
blockSharedBindings(pN, h, path) ==
  blockLoop(pN, 1, Num(0), [h EXCEPT !.b = ObjectAssign(h.b, pN.bindings)], path)

blockRuleHandler(pN, h, path) ==
  LET cB == ObjectAssign(h.b, pN.bindings)
      r == blockLoop(pN, 1, Num(0), [h EXCEPT !.b = cB], path)
  IN [r EXCEPT !.h.b = h.b]

\* the loop with "r.push(value)" outside the test of line 156
arrayLoopHoles(pN, i, acc, h, path) ==
  IF i > Len(pN.nodes) THEN Ret(Arr(acc), pN, h)
  ELSE LET r == dslRuleHandler(pN.nodes[i], pN, h, Append(path, i))
           pN1 == [pN EXCEPT !.nodes[i] = r.n]
       IN IF r.thrown THEN Throw(pN1, r.h)
          ELSE arrayLoop(pN1, i + 1, Append(acc, r.v), r.h, path)

\* the for loop of arrayRuleHandler from index i on, r the result array
arrayLoop(pN, i, acc, h, path) ==
  IF i > Len(pN.nodes) THEN Ret(Arr(acc), pN, h)
  ELSE LET r == dslRuleHandler(pN.nodes[i], pN, h, Append(path, i))
           pN1 == [pN EXCEPT !.nodes[i] = r.n]
       IN IF r.thrown THEN Throw(pN1, r.h)
          ELSE arrayLoop(pN1, i + 1, IF r.v # Undefined THEN Append(acc, r.v) ELSE acc,
                         r.h, path)

arrayRuleHandler(pN, h, path) == arrayLoop(pN, 1, <<>>, h, path)

\* the switch of dslRuleHandler; reading .shape of undefined raises, reading
\* it of any other value that is no node gives undefined (the default arm)
dispatch(node, parentNode, h, path) ==
  IF ~IsNode(node)
  THEN IF node = Undefined THEN Throw(node, h) ELSE Ret(Undefined, node, h)
  ELSE CASE node.shape = "Block" -> blockRuleHandler(node, h, path)
         [] node.shape = "Assignment" -> assignmentRuleHandler(node, parentNode, h, path)
         [] node.shape = "Array" -> arrayRuleHandler(node, h, path)
         [] node.shape = "Function" -> functionRuleHandler(node, h, path)
         [] node.shape = "Literal" -> literalRuleHandler(node, h)
         [] node.shape = "Identifier" -> identifierRuleHandler(node, h)
         [] OTHER -> Ret(Undefined, node, h)

\* the dispatcher without its failure boundary: the error travels on
catchNothing(r, path) == r

\* try { switch } catch (e) { console.error(e); return undefined; }
catch(r, path) ==
  IF r.thrown
  THEN [r EXCEPT !.v = Undefined, !.thrown = FALSE, !.h.log = Append(@, path)]
  ELSE r

dslRuleHandler(node, parentNode, h, path) ==
  LET d == dispatch(node, parentNode, h, path)
      r == catch(d, path)
      e == [kind |-> "eval", path |-> path, node |-> node,
            pshape |-> parentNode.shape,
            bIn |-> h.b, bOut |-> r.h.b,
            v |-> r.v, failed |-> d.thrown, a |-> <<>>]
  IN [r EXCEPT !.h.ev = Append(@, e)]

\* ------------------------------------------------------------ the inputs
\* Nested nodes carry id 1; the top-level ids are chosen in Init.
SeqsUpTo(S, n) == UNION {[1..k -> S] : k \in 0..n}

LitNum(k) == Lit(1, Num(k))
LitX == Lit(1, Str("x"))
IdA == Id(1, "a")

ArgPool == {LitNum(3), IdA, Asg(1, "a", LitNum(2))}
ElemPool == {LitNum(2), LitNum(3), IdA, Asg(1, "a", LitNum(2))}
StmtPool == {LitNum(3), LitX, IdA, Asg(1, "a", LitNum(2)), Asg(1, "a", LitX),
             Blk(1, <<Asg(1, "a", LitNum(3))>>, NoBindings),
             Fun(1, "add", <<IdA, LitNum(3)>>)}

Functions == {Fun(1, c, as) : c \in {"add", "boom", "a"}, as \in SeqsUpTo(ArgPool, MaxArgs)}
Arrays == {Ary(1, ns) : ns \in SeqsUpTo(ElemPool, MaxNodes)}
Blocks == {Blk(1, ns, bs) : ns \in SeqsUpTo(StmtPool, MaxStmts),
                            bs \in {NoBindings, [NoBindings EXCEPT !["a"] = Num(2)]}}
Singles == {LitNum(3), LitX, IdA, Other(1), Asg(1, "a", LitNum(2)), Asg(1, "a", LitX),
            Asg(1, "a", Undefined), Asg(1, "a", Asg(1, "a", LitNum(2))),
            Ary(1, <<Blk(1, <<Asg(1, "a", LitNum(2))>>, NoBindings), IdA>>)}

TopPool == Functions \cup Arrays \cup Blocks \cup Singles
PrefixPool == {Asg(1, "a", LitNum(2)), Asg(1, "a", LitX), LitNum(3)}

\* a program: at most one leading statement, then one node of any kind
Programs == {<<n>> : n \in TopPool} \cup {<<p, n>> : p \in PrefixPool, n \in TopPool}
             \cup {<<>>}

TopIds == {<<1, 2>>, <<2, 2>>}
Ids == {1, 2}

\* the ids ids[1], ids[2] given to a program of two nodes; a single node
\* gets ids[2], so that a nested id (1) can differ from every top-level id
WithIds(ns, ids) ==
  [j \in 1..Len(ns) |-> [ns[j] EXCEPT !.id = ids[j + 2 - Len(ns)]]]

RootBindings == [NoBindings EXCEPT !["add"] = Fn("add"), !["boom"] = Fn("boom")]

\* the root is a DslNode of shape Block, or a bare {nodes, bindings} whose
\* shape property reads undefined
RootShapes == {"Block", "undefined"}

\* -------------------------------------------------------------- the driver
VARIABLES ast0, ast, interestIds, pc, i, rMap, vals, trace, log, results

vars == <<ast0, ast, interestIds, pc, i, rMap, vals, trace, log, results>>

NoMap == [k \in Ids |-> Undefined]

Init ==
  /\ \E sh \in RootShapes, ns \in Programs, ids \in TopIds :
       ast0 = [shape |-> sh, nodes |-> WithIds(ns, ids), bindings |-> RootBindings]
  /\ ast = ast0
  /\ interestIds \in SUBSET Ids
  /\ pc = "idle"
  /\ i = 1
  /\ rMap = NoMap
  /\ vals = <<>>
  /\ trace = <<>>
  /\ log = <<>>
  /\ results = <<>>

\* run(ast, interestIds) is called (again) on the same ast object
Call ==
  /\ pc \in {"idle", "returned"}
  /\ Len(results) < MaxRuns
  /\ pc' = "loop"
  /\ i' = 1
  /\ rMap' = NoMap
  /\ vals' = <<>>
  /\ trace' = <<>>
  /\ log' = <<>>
  /\ UNCHANGED <<ast0, ast, interestIds, results>>

\* the update without the interestIds test
recordAll(m, id, value, interest) ==
  IF value # Undefined THEN [m EXCEPT ![id] = value] ELSE m

\* if (interestIds.includes(id) && value !== undefined) rMap[id] = value
record(m, id, value, interest) ==
  IF id \in interest /\ value # Undefined THEN [m EXCEPT ![id] = value] ELSE m

\* one iteration of run's for loop
RunStep ==
  /\ pc = "loop"
  /\ i <= Len(ast.nodes)
  /\ LET childNode == ast.nodes[i]
         r == dslRuleHandler(childNode, ast,
                             [b |-> ast.bindings, ev |-> <<>>, log |-> log], <<i>>)
         id == childNode.id
     IN /\ ast' = [ast EXCEPT !.nodes[i] = r.n, !.bindings = r.h.b]
        /\ trace' = r.h.ev
        /\ log' = r.h.log
        /\ pc' = IF r.thrown THEN "raised" ELSE "loop"
        /\ vals' = Append(vals, r.v)
        /\ rMap' = record(rMap, id, r.v, interestIds)
        /\ i' = i + 1
  /\ UNCHANGED <<ast0, interestIds, results>>

\* return rMap
RunReturn ==
  /\ pc = "loop"
  /\ i > Len(ast.nodes)
  /\ pc' = "returned"
  /\ results' = Append(results, rMap)
  /\ UNCHANGED <<ast0, ast, interestIds, i, rMap, vals, trace, log>>

Next == Call \/ RunStep \/ RunReturn

Spec == Init /\ [][Next]_vars

\* ------------------------------------------------- reading the evaluation
\* trace holds, for the latest iteration of run's loop, one "eval" record per
\* dslRuleHandler call (appended when the call returns) and one "call"
\* record per invocation of a host operation.
IsEval(k) == trace[k].kind = "eval"
EvalsOf(shape) ==
  {k \in DOMAIN trace : IsEval(k) /\ IsNode(trace[k].node) /\ trace[k].node.shape = shape}
HasEval(p) == \E k \in DOMAIN trace : IsEval(k) /\ trace[k].path = p
EvalIdx(p) == CHOOSE k \in DOMAIN trace : IsEval(k) /\ trace[k].path = p
EvalAt(p) == trace[EvalIdx(p)]
\* the values the children 1..n of the node at path p evaluated to
ChildVals(p, n) == [j \in 1..n |-> EvalAt(Append(p, j)).v]
IsDefined(v) == v # Undefined
MaxOf(S) == CHOOSE x \in S : \A y \in S : y <= x
FirstRun == Len(results) = 0 /\ pc \in {"loop", "raised"}

\* ------------------------------------------------------------------ claims
\* the scenario of the specification: a := 2; add(a, 3) under a root given
\* as {nodes, bindings}, interestIds = [2]
ScenarioNodes == <<Asg(1, "a", LitNum(2)), Fun(2, "add", <<IdA, LitNum(3)>>)>>
IsScenario ==
  ast0.shape = "undefined" /\ ast0.nodes = ScenarioNodes /\ interestIds = {2}

\* C1: under a root given only as {nodes, bindings}, a top-level Assignment
\* whose right-hand side is a numeric Literal binds its name in the root
\* bindings once its iteration is over, and the scenario a := 2; add(a, 3)
\* with interestIds = [2] returns exactly {2: 5}.
C1_TopLevelAssignmentBinds ==
  /\ (FirstRun /\ ast0.shape = "undefined") =>
       \A k \in 1..(i - 1) :
         LET n == ast0.nodes[k]
         IN (n.shape = "Assignment" /\ IsNode(n.value) /\ n.value.shape = "Literal"
               /\ TypeOf(n.value.value) = "number")
            => ast.bindings[n.name] # Undefined
  /\ (IsScenario /\ Len(results) >= 1) =>
       results[1] = [NoMap EXCEPT ![2] = Num(5)]

\* the ways a single dslRuleHandler call fails, read off its record: a
\* missing (undefined) node, a non-numeric Literal, an Assignment whose
\* parent is no Block, a callee that is not invocable, a host operation that
\* raises
FailureCase(e) ==
  IF ~IsNode(e.node) THEN e.node = Undefined
  ELSE \/ e.node.shape = "Literal" /\ e.node.value.t \notin {"number", "nan"}
       \/ e.node.shape = "Assignment" /\ e.pshape # "Block"
       \/ e.node.shape = "Function" /\ e.bIn[e.node.callee.name].t # "function"
       \/ e.node.shape = "Function" /\ e.bIn[e.node.callee.name] = Fn("boom")

LogLines(p) == {m \in DOMAIN log : log[m] = p}

\* C2: no failure raised while evaluating a node leaves dslRuleHandler or
\* run: the call of the failing node returns NoValue and writes exactly one
\* diagnostic, a call that does not fail writes none, and every run ends by
\* returning its result mapping.
C2_ErrorContainment ==
  /\ pc # "raised"
  /\ \A k \in DOMAIN trace :
       IsEval(k) =>
         /\ FailureCase(trace[k]) => trace[k].v = Undefined
         /\ Cardinality(LogLines(trace[k].path)) = IF FailureCase(trace[k]) THEN 1 ELSE 0
  /\ (pc = "returned") => (Len(results) >= 1 /\ results[Len(results)] = rMap)
  /\ (pc = "loop" /\ Len(vals) = Len(ast.nodes)) => ENABLED RunReturn

\* C2 witness: a run has returned although its last top-level node held a
\* nested failing node and two diagnostics were written on the way.
C2_Witness ==
  /\ pc = "returned"
  /\ Len(log) >= 2
  /\ \E k \in DOMAIN trace :
       IsEval(k) /\ FailureCase(trace[k]) /\ Len(trace[k].path) >= 2

\* the Assignment children of the Block at record e whose right-hand side
\* evaluated to a defined value, i.e. those that bound their name
BindingChildren(e) ==
  {j \in 1..Len(e.node.nodes) :
     /\ IsNode(e.node.nodes[j])
     /\ e.node.nodes[j].shape = "Assignment"
     /\ HasEval(e.path \o <<j, 1>>)
     /\ EvalAt(e.path \o <<j, 1>>).v # Undefined}

\* C3: inside a Block a name bound by an Assignment resolves for every later
\* sibling, and when the Block is done the enclosing scope's bindings are
\* exactly what they were when it started.
C3_BlockScopeIsolation ==
  \A k \in EvalsOf("Block") :
    LET e == trace[k]
    IN /\ e.bOut = e.bIn
       /\ \A j \in BindingChildren(e) :
            \A j2 \in (j + 1)..Len(e.node.nodes) :
              EvalAt(Append(e.path, j2)).bIn[e.node.nodes[j].name] # Undefined

\* C3 witness: a Block has bound a name its enclosing scope does not have,
\* a later sibling has run, and the enclosing scope still lacks the name.
C3_Witness ==
  \E k \in EvalsOf("Block") :
    LET e == trace[k]
    IN /\ 1 \in BindingChildren(e)
       /\ Len(e.node.nodes) >= 2
       /\ e.bIn[e.node.nodes[1].name] = Undefined
       /\ EvalAt(Append(e.path, 2)).bIn[e.node.nodes[1].name] # Undefined
       /\ ast.bindings[e.node.nodes[1].name] = Undefined

\* C4: an Assignment that is a direct child of a Block returns the value it
\* just bound when its right-hand side is defined, and NoValue, with the
\* scope unchanged, whenever the right-hand side produced no value.
C4_AssignmentResult ==
  \A k \in EvalsOf("Assignment") :
    LET e == trace[k]
    IN e.pshape = "Block" =>
         LET rhs == EvalAt(Append(e.path, 1)).v
         IN IF rhs # Undefined THEN e.v = rhs /\ e.bOut[e.node.name] = rhs
            ELSE e.v = Undefined /\ e.bOut = e.bIn

\* C5: an Assignment whose parent is no Block yields NoValue, leaves the
\* bindings of its scope as they were, does not evaluate its right-hand
\* side, and raises nothing past run.
C5_AssignmentPosition ==
  /\ pc # "raised"
  /\ \A k \in EvalsOf("Assignment") :
       LET e == trace[k]
       IN e.pshape # "Block" =>
            /\ e.v = Undefined
            /\ e.bOut = e.bIn
            /\ ~HasEval(Append(e.path, 1))

\* C5 witness: an Assignment with a numeric right-hand side sat in the
\* argument list of a Function, and the run went on to return.
C5_Witness ==
  /\ pc = "returned"
  /\ \E k \in EvalsOf("Assignment") :
       /\ trace[k].pshape = "Function"
       /\ IsNode(trace[k].node.value)
       /\ trace[k].node.value.shape = "Literal"
       /\ TypeOf(trace[k].node.value.value) = "number"

\* the top-level nodes so far whose id is id, is of interest and whose
\* evaluation produced a defined value
Hits(id) ==
  {k \in DOMAIN vals : ast0.nodes[k].id = id /\ id \in interestIds /\ vals[k] # Undefined}

\* C6: the mapping run builds, and returns, holds an id exactly when some
\* top-level node has that id, the id is in interestIds and the node's value
\* is defined; the mapped value is that of the last such node.
C6_DriverOutput ==
  /\ pc \in {"loop", "returned"} =>
       \A id \in Ids :
         IF Hits(id) = {} THEN rMap[id] = Undefined
         ELSE rMap[id] = vals[MaxOf(Hits(id))]
  /\ (pc = "returned") => (Len(vals) = Len(ast0.nodes) /\ results[Len(results)] = rMap)
  /\ (pc = "loop" /\ i > 1) => vals[i - 1] = trace[Len(trace)].v

\* C6 witness: two top-level nodes share an id of interest, both produced a
\* value, the values differ, and run returned the second; the id of a nested
\* node, also of interest, is absent.
C6_Witness ==
  /\ pc = "returned"
  /\ Len(vals) = 2
  /\ ast0.nodes[1].id = 2 /\ ast0.nodes[2].id = 2
  /\ interestIds = {1, 2}
  /\ vals[1] # Undefined /\ vals[2] # Undefined /\ vals[1] # vals[2]
  /\ rMap[2] = vals[2]
  /\ rMap[1] = Undefined
  /\ Len(trace) >= 2

\* the "call" records of the Function at path p
CallsOf(p) == {k \in DOMAIN trace : trace[k].kind = "call" /\ trace[k].path = p}

\* C9: a Function evaluates every element of args, left to right, in the
\* scope of the call, before the host operation is looked up; an invocable
\* operation is applied once, to the values of the first two arguments
\* (undefined where there is none), and its result is the node's value; an
\* operation that is not invocable is never invoked and the node yields
\* NoValue.
C9_FunctionApplication ==
  \A k \in EvalsOf("Function") :
    LET e == trace[k]
        n == Len(e.node.args)
        cv == ChildVals(e.path, n)
        operation == e.bIn[e.node.callee.name]
    IN /\ \A j \in 1..n :
            /\ HasEval(Append(e.path, j))
            /\ EvalAt(Append(e.path, j)).node = e.node.args[j]
            /\ EvalAt(Append(e.path, j)).bIn = e.bIn
            /\ EvalAt(Append(e.path, j)).bOut = e.bIn
            /\ \A j2 \in (j + 1)..n : EvalIdx(Append(e.path, j)) < EvalIdx(Append(e.path, j2))
            /\ \A c \in CallsOf(e.path) : EvalIdx(Append(e.path, j)) < c
       /\ e.bOut = e.bIn
       /\ IF TypeOf(operation) = "function"
          THEN /\ Cardinality(CallsOf(e.path)) = 1
               /\ \A c \in CallsOf(e.path) :
                    /\ trace[c].a = <<At(cv, 1), At(cv, 2)>>
                    /\ trace[c].bIn = e.bIn
                    /\ e.v = trace[c].v
               /\ e.v = HostApply(operation, At(cv, 1), At(cv, 2)).v
          ELSE CallsOf(e.path) = {} /\ e.v = Undefined

\* C9 witness: add was applied to three arguments of which the second gave
\* NoValue: it received (3, undefined) and the third argument was ignored.
C9_Witness ==
  \E k \in EvalsOf("Function") :
    LET e == trace[k]
    IN /\ Len(e.node.args) = 3
       /\ e.bIn[e.node.callee.name] = Fn("add")
       /\ ChildVals(e.path, 3) = <<Num(3), Undefined, Num(3)>>
       /\ \E c \in CallsOf(e.path) : trace[c].a = <<Num(3), Undefined>>
       /\ e.v = NaN

\* the last defined value of a sequence of child values, or the default
LastDefined(cv, default) ==
  LET D == {j \in DOMAIN cv : cv[j] # Undefined}
  IN IF D = {} THEN default ELSE cv[MaxOf(D)]

\* C7: a Block returns the value of its last child that produced a defined
\* value, and 0 when it has no child or no child produced one; it never
\* fails and never returns NoValue.
C7_BlockResult ==
  \A k \in EvalsOf("Block") :
    LET e == trace[k]
    IN /\ ~e.failed
       /\ e.v = LastDefined(ChildVals(e.path, Len(e.node.nodes)), Num(0))

\* C7 witness: a Block whose first child gave a value and whose second gave
\* NoValue returned the first child's value.
C7_Witness ==
  \E k \in EvalsOf("Block") :
    LET e == trace[k]
    IN /\ Len(e.node.nodes) = 2
       /\ EvalAt(Append(e.path, 1)).v # Undefined
       /\ EvalAt(Append(e.path, 2)).v = Undefined
       /\ e.v = EvalAt(Append(e.path, 1)).v

\* C8: an Array returns its children's defined values in child order with
\* every NoValue dropped, never fails, and leaves the scope's bindings as
\* they were.
C8_ArrayResult ==
  \A k \in EvalsOf("Array") :
    LET e == trace[k]
    IN /\ ~e.failed
       /\ e.v = Arr(SelectSeq(ChildVals(e.path, Len(e.node.nodes)), IsDefined))
       /\ e.bOut = e.bIn

\* C8 witness: children producing [2, NoValue, 3] gave the array [2, 3].
C8_Witness ==
  \E k \in EvalsOf("Array") :
    /\ Len(trace[k].node.nodes) = 3
    /\ ChildVals(trace[k].path, 3) = <<Num(2), Undefined, Num(3)>>
    /\ trace[k].v = Arr(<<Num(2), Num(3)>>)

\* C10: a second run on the same AST object with the same interestIds
\* returns the same result mapping as the first.
C10_RerunStable == Len(results) >= 2 => results[2] = results[1]

====
